---------------------------- MODULE Spec2Model ----------------------------
(***************************************************************************)
(* Mention ingestion and reply-decision pipeline of echos_lab.twitter:     *)
(* checkpoint cursor, incremental mention/timeline fetch, mentions cycle,  *)
(* thread reconstruction and the reply-guy scheduler.                      *)
(*                                                                         *)
(* Conventions:                                                            *)
(*  - tweet ids are positive integers; Python's None (and a missing        *)
(*    checkpoint row) is written 0, which is also falsy in the code's      *)
(*    `if latest_tweet_id:` tests;                                         *)
(*  - user ids are opaque, so they are strings here;                       *)
(*  - an exception raised by a call is an abort of the running handler.    *)
(***************************************************************************)
EXTENDS Integers, Sequences, FiniteSets, TLC

(***************************************************************************)
(* Bounds of the model.                                                    *)
(***************************************************************************)
\* Largest tweet id the platform issues.
MaxTweetId == 4
\* Largest number of tweets of the followed account.
MaxFollowedTweets == 2
\* batch_size of get_all_user_mentions (100 in production, 2 in the tests).
BatchSize == 2

TweetIds == 1..MaxTweetId

(***************************************************************************)
(* Users, agents and checkpoint keys                                        *)
(***************************************************************************)
AgentName == "agent"
AgentId == "agent_id"
FollowedId == "followed_id"
AuthorId == "author_id"
UnknownId == "unknown_id"
UserIds == {AgentId, FollowedId, AuthorId, UnknownId}
\* Users the platform API can resolve (get_username_from_user_id returns a name).
ApiUsers == {AgentId, FollowedId, AuthorId}

USER_TWEETS == "user_tweets"
USER_MENTIONS == "user_mentions"
QueryTypes == {USER_TWEETS, USER_MENTIONS}

\* Primary key of twitter_query_checkpoints: (agent_name, user_id, query_type).
Keys == {AgentName} \X UserIds \X QueryTypes
MentionsKey == <<AgentName, AgentId, USER_MENTIONS>>
TweetsKey == <<AgentName, FollowedId, USER_TWEETS>>
UnknownKey == <<AgentName, UnknownId, USER_TWEETS>>

VARIABLES
    \* ---- database (durable) ----
    checkpoint,      \* [Keys -> 0..MaxTweetId], last_tweet_id per key, 0 = no row
    dbUsers,         \* user ids stored in twitter_users
    dbTweets,        \* ids of the mention tweets stored in tweets
    \* ---- direct calls of the checkpoint API ----
    lastCall,        \* the last create_checkpoint / update_checkpoint call
    prevCheckpoint,  \* the checkpoint table before that call
    \* ---- platform ----
    platformNewest,  \* the agent's mentions on the platform are tweets 1..platformNewest
    followedNewest,  \* the followed account's tweets are 1..followedNewest
    \* ---- process ----
    botStartTime,    \* bot_start_time, taken when the process starts
    \* ---- mentions cycle (run_reply_guy_mentions_cycle) ----
    pc,              \* position of the cycle
    cpAtStart,       \* the user-mentions checkpoint when the cycle started
    sinceTweetId,    \* since_tweet_id of get_all_user_mentions
    sinceTime,       \* since_time of get_all_user_mentions, 0 = None
    mentions,        \* mentions accumulated (ids of the tagged tweets)
    requests,        \* batch requests issued by this fetch
    responses,       \* the platform's answer to each request
    replyIdx,        \* number of mentions the reply loop has taken
    outcome,         \* how the last cycle ended
    failedAt,        \* pc at which it was aborted
    \* ---- followers fetch (get_user_latest_tweets) ----
    tweetsCall,      \* the last request of get_user_latest_tweets
    \* ---- history ----
    fetched,         \* mentions some batch has returned
    delivered,       \* mentions the reply stage has taken
    \* ---- reply-guy scheduler (start_twitter_reply_guy) ----
    jobRuns,         \* per job, the position of each instance that is running
    jobDue,          \* per job, run times that have passed and were not processed yet
    jobTicks,        \* per job, run times the scheduler has processed
    jobSkipped,      \* per job, run times skipped because of max_instances
    \* ---- thread reconstruction (get_all_parent_tweets) ----
    thTweets,        \* the platform's tweets: conversation_id and referenced_tweets
    thMissing,       \* the tweet id get_tweet returns no data for, 0 = none
    tweet,           \* `tweet` of get_all_parent_tweets (an id)
    parent_tweets,   \* `parent_tweets` of get_all_parent_tweets (ids)
    thPc,            \* position of get_all_parent_tweets
    thResult,        \* the list it returned
    thMention,       \* the TweetMention enrich_user_mention built from it
    \* ---- reply heuristic (should_reply_to_mention) ----
    srArgs,          \* bot_handle and mention of the call
    srResult,        \* what the call returned
    \* ---- posting (post_tweet_response) ----
    ptArgs,          \* the arguments and the answers of the services it calls
    ptResult,        \* the calls it made and what it returned
    \* ---- posting (post_tweet) ----
    twArgs,          \* the arguments and the id in the platform's answer
    twResult,        \* the request made, the row written and what it returned
    \* ---- Slack adapter (SlackHandler) ----
    slCache,         \* _message_cache: the keys with their expiry, oldest first
    slNow,           \* the cache's timer
    slLog            \* the deliveries so far: key, time and what the wrapper did

dbVars == <<checkpoint, dbUsers, dbTweets>>
callVars == <<lastCall, prevCheckpoint>>
platformVars == <<platformNewest, followedNewest>>
cycleVars == <<pc, cpAtStart, sinceTweetId, sinceTime, mentions, requests, responses,
               replyIdx, outcome, failedAt>>
historyVars == <<fetched, delivered>>
mainVars == <<dbVars, callVars, platformVars, botStartTime, cycleVars, tweetsCall, historyVars>>
schedVars == <<jobRuns, jobDue, jobTicks, jobSkipped>>
threadVars == <<thTweets, thMissing, tweet, parent_tweets, thPc, thResult, thMention>>
\* What the ingestion actions leave alone.
replyVars == <<srArgs, srResult>>
postVars == <<ptArgs, ptResult, twArgs, twResult>>
slackVars == <<slCache, slNow, slLog>>
otherVars == <<schedVars, threadVars, replyVars, postVars, slackVars>>
vars == <<mainVars, schedVars, threadVars, replyVars, postVars, slackVars>>

(***************************************************************************)
(* Checkpoint cursor (twitter_pipeline.py)                                 *)
(***************************************************************************)
\* The row's last_tweet_id, 0 when .first() finds no row.
get_checkpoint(cp, key) == cp[key]

\* get_username_from_user_id: the DB first, then the API (which stores the user).
get_username_from_user_id(users, user_id) == user_id \in users \/ user_id \in ApiUsers

\* TRUE when assert_user_exists returns, FALSE when it raises RuntimeError.
assert_user_exists(users, user_id) == get_username_from_user_id(users, user_id)

\* The users table after a successful lookup of user_id.
UsersAfterLookup(users, user_id) ==
    IF user_id \in users \/ user_id \in ApiUsers THEN users \cup {user_id} ELSE users

\* db.add(TwitterQueryCheckpoint(..., last_tweet_id=tweet_id)); db.commit()
create_checkpoint(cp, key, tweet_id) == [cp EXCEPT ![key] = tweet_id]

\* A variant that keeps the stored id when the new one is not newer.
update_checkpoint_if_newer(cp, key, tweet_id) ==
    IF get_checkpoint(cp, key) # 0
    THEN [cp EXCEPT ![key] = IF tweet_id > cp[key] THEN tweet_id ELSE cp[key]]
    ELSE create_checkpoint(cp, key, tweet_id)

\* checkpoint.last_tweet_id = tweet_id when the row exists, else create_checkpoint.
update_checkpoint(cp, key, tweet_id) ==
    IF get_checkpoint(cp, key) # 0
    THEN [cp EXCEPT ![key] = tweet_id]
    ELSE create_checkpoint(cp, key, tweet_id)

\* update_checkpoint raises only on the create path, when the user is unknown.
update_checkpoint_raises(cp, users, key) ==
    get_checkpoint(cp, key) = 0 /\ ~assert_user_exists(users, key[2])

(***************************************************************************)
(* Helpers                                                                 *)
(***************************************************************************)
Range(s) == {s[i] : i \in DOMAIN s}
Max(S) == CHOOSE x \in S : \A y \in S : y <= x
Min(S) == CHOOSE x \in S : \A y \in S : x <= y

\* created_at of a tweet: ids are issued in time order and created_at has a
\* resolution of one second, so two consecutive tweets may share it.
CreatedAt(id) == (id + 1) \div 2

\* One step of sorted(..., key=created_at): Python's sort is stable, so x goes
\* after every element that is not later than it.
InsertByCreatedAt(s, x) ==
    LET later == {i \in DOMAIN s : CreatedAt(s[i]) > CreatedAt(x)}
        at == IF later = {} THEN Len(s) + 1 ELSE Min(later)
    IN  SubSeq(s, 1, at - 1) \o <<x>> \o SubSeq(s, at, Len(s))

RECURSIVE SortedByCreatedAt(_)
\* sorted(mentions, key=lambda i: i.tagged_tweet.created_at)
SortedByCreatedAt(s) ==
    IF s = <<>> THEN <<>>
    ELSE InsertByCreatedAt(SortedByCreatedAt(SubSeq(s, 1, Len(s) - 1)), s[Len(s)])

RECURSIVE NewestFirst(_)
\* response.data lists the tweets newest first.
NewestFirst(S) == IF S = {} THEN <<>> ELSE <<Max(S)>> \o NewestFirst(S \ {Max(S)})

(***************************************************************************)
(* Platform (the tweepy client's answers)                                  *)
(***************************************************************************)
\* The tweets 1..newest that pass the since_id and start_time filters.
TweetsSince(newest, since_id, since_time) ==
    {m \in 1..newest : /\ (since_id # 0 => m > since_id)
                       /\ (since_time # 0 => CreatedAt(m) >= since_time)}

\* The pages get_users_mentions may answer: max_results of the matching tweets,
\* all of them when there are fewer.
MentionsPages(newest, since_id, since_time, max_results) ==
    LET match == TweetsSince(newest, since_id, since_time)
        n == IF Cardinality(match) < max_results THEN Cardinality(match) ELSE max_results
    IN  {S \in SUBSET match : Cardinality(S) = n}

(***************************************************************************)
(* Incremental fetch (twitter_client.py, twitter_pipeline.py)              *)
(***************************************************************************)
\* A variant that always passes the caller's floor.
time_filter_always(cp, since_time) == since_time

\* time_filter = None if checkpoint else since_time
time_filter(cp, since_time) == IF cp # 0 THEN 0 ELSE since_time

\* A variant that never passes the checkpoint's id.
id_filter_none(cp) == 0

\* id_filter = checkpoint.last_tweet_id if checkpoint else None
id_filter(cp) == IF cp # 0 THEN cp ELSE 0

\* get_user_mentions_batch: None (no data) or (mentions, newest_id).
NoData == [has_data |-> FALSE, data |-> <<>>, newest_id |-> 0]
get_user_mentions_batch(page) ==
    IF page = {} THEN NoData
    ELSE [has_data |-> TRUE, data |-> NewestFirst(page), newest_id |-> Max(page)]

\* A variant that keeps the previous lower bound.
next_since_tweet_id_stale(since_tweet_id, result) == since_tweet_id

\* since_tweet_id = last_tweet_id, kept when the batch is None (break before).
next_since_tweet_id(since_tweet_id, result) ==
    IF result.has_data THEN result.newest_id ELSE since_tweet_id

\* A variant that also stops after a full batch.
loop_breaks_on_full_batch(result, batch_size) ==
    ~result.has_data \/ Len(result.data) <= batch_size

\* `if not result: break` and `if len(mentions_batch) < batch_size: break`
loop_breaks(result, batch_size) ==
    ~result.has_data \/ Len(result.data) < batch_size

CyclePcs == {"lookup", "fetch", "update_checkpoint", "store_authors", "store_tweets", "reply"}

InitPlatform ==
    /\ platformNewest \in {0, 1, 2}
    /\ followedNewest = 0
    /\ botStartTime = CreatedAt(platformNewest + 1)

InitCycle ==
    /\ pc = "idle"
    /\ cpAtStart = 0
    /\ sinceTweetId = 0
    /\ sinceTime = 0
    /\ mentions = <<>>
    /\ requests = <<>>
    /\ responses = <<>>
    /\ replyIdx = 0
    /\ outcome = "none"
    /\ failedAt = "none"
    /\ tweetsCall = [cp |-> 0, floor |-> 0, since_id |-> 0, since_time |-> 0, called |-> FALSE]
    /\ fetched = {}
    /\ delivered = {}

\* The state of everything but the database and the call record, at rest.
InitIdle ==
    /\ platformNewest = 0
    /\ followedNewest = 0
    /\ botStartTime = CreatedAt(1)
    /\ InitCycle

\* The platform records a new tweet that mentions the agent.
NewMention ==
    /\ platformNewest < MaxTweetId
    /\ platformNewest' = platformNewest + 1
    /\ UNCHANGED otherVars
    /\ UNCHANGED <<dbVars, callVars, followedNewest, botStartTime, cycleVars, tweetsCall,
                   historyVars>>

\* The followed account posts a tweet.
NewFollowedTweet ==
    /\ followedNewest < MaxFollowedTweets
    /\ followedNewest' = followedNewest + 1
    /\ UNCHANGED otherVars
    /\ UNCHANGED <<dbVars, callVars, platformNewest, botStartTime, cycleVars, tweetsCall,
                   historyVars>>

\* The scheduler starts run_reply_guy_mentions_cycle.
StartMentionsCycle ==
    /\ pc = "idle"
    /\ pc' = "lookup"
    /\ cpAtStart' = get_checkpoint(checkpoint, MentionsKey)
    /\ sinceTweetId' = 0
    /\ sinceTime' = 0
    /\ mentions' = <<>>
    /\ requests' = <<>>
    /\ responses' = <<>>
    /\ replyIdx' = 0
    /\ outcome' = "running"
    /\ failedAt' = "none"
    /\ UNCHANGED otherVars
    /\ UNCHANGED <<dbVars, callVars, platformVars, botStartTime, tweetsCall, historyVars>>

\* require_user_id_from_username, then get_user_mentions up to its first request:
\* the checkpoint is read and the two filters are set.
BeginGetUserMentions ==
    /\ pc = "lookup"
    /\ dbUsers' = UsersAfterLookup(dbUsers, AgentId)
    /\ sinceTweetId' = id_filter(get_checkpoint(checkpoint, MentionsKey))
    /\ sinceTime' = time_filter(get_checkpoint(checkpoint, MentionsKey), botStartTime)
    /\ pc' = "fetch"
    /\ UNCHANGED otherVars
    /\ UNCHANGED <<checkpoint, dbTweets, callVars, platformVars, botStartTime, cpAtStart,
                   mentions, requests, responses, replyIdx, outcome, failedAt, tweetsCall,
                   historyVars>>

\* One iteration of the loop of get_all_user_mentions; the list is sorted when
\* the loop is left.
FetchBatch ==
    /\ pc = "fetch"
    /\ \E page \in MentionsPages(platformNewest, sinceTweetId, sinceTime, BatchSize) :
        LET result == get_user_mentions_batch(page)
            all == mentions \o result.data
            stop == loop_breaks(result, BatchSize)
        IN  /\ requests' = Append(requests, [since_id |-> sinceTweetId, since_time |-> sinceTime])
            /\ responses' = Append(responses, result)
            /\ sinceTweetId' = next_since_tweet_id(sinceTweetId, result)
            /\ mentions' = IF stop THEN SortedByCreatedAt(all) ELSE all
            /\ fetched' = fetched \cup page
            /\ pc' = IF stop THEN "update_checkpoint" ELSE "fetch"
    /\ UNCHANGED otherVars
    /\ UNCHANGED <<dbVars, callVars, platformVars, botStartTime, cpAtStart, sinceTime,
                   replyIdx, outcome, failedAt, tweetsCall, delivered>>

\* Batch requests of one get_all_user_mentions call the model follows when the
\* platform leaves newest_id out of its answers.
MaxRequests == 4

\* get_user_mentions_batch when response.meta has no newest_id:
\* latest_tweet_id is None.
get_user_mentions_batch_no_newest_id(page) ==
    [get_user_mentions_batch(page) EXCEPT !.newest_id = 0]

\* One iteration of the loop of get_all_user_mentions in which the platform
\* answers with data and without newest_id.
FetchBatchNoNewestId ==
    /\ pc = "fetch"
    /\ Len(requests) < MaxRequests
    /\ \E page \in MentionsPages(platformNewest, sinceTweetId, sinceTime, BatchSize) \ {{}} :
        LET result == get_user_mentions_batch_no_newest_id(page)
            all == mentions \o result.data
            stop == loop_breaks(result, BatchSize)
        IN  /\ requests' = Append(requests, [since_id |-> sinceTweetId, since_time |-> sinceTime])
            /\ responses' = Append(responses, result)
            /\ sinceTweetId' = next_since_tweet_id(sinceTweetId, result)
            /\ mentions' = IF stop THEN SortedByCreatedAt(all) ELSE all
            /\ fetched' = fetched \cup page
            /\ pc' = IF stop THEN "update_checkpoint" ELSE "fetch"
    /\ UNCHANGED otherVars
    /\ UNCHANGED <<dbVars, callVars, platformVars, botStartTime, cpAtStart, sinceTime,
                   replyIdx, outcome, failedAt, tweetsCall, delivered>>

\* get_user_mentions: `if latest_tweet_id: await update_checkpoint(...)`
UpdateMentionsCheckpoint ==
    /\ pc = "update_checkpoint"
    /\ checkpoint' = IF sinceTweetId # 0
                     THEN update_checkpoint(checkpoint, MentionsKey, sinceTweetId)
                     ELSE checkpoint
    /\ pc' = "store_authors"
    /\ UNCHANGED otherVars
    /\ UNCHANGED <<dbUsers, dbTweets, callVars, platformVars, botStartTime, cpAtStart,
                   sinceTweetId, sinceTime, mentions, requests, responses, replyIdx, outcome,
                   failedAt, tweetsCall, historyVars>>

\* get_user_mentions: every author is looked up and stored.
StoreAuthors ==
    /\ pc = "store_authors"
    /\ dbUsers' = IF mentions = <<>> THEN dbUsers ELSE UsersAfterLookup(dbUsers, AuthorId)
    /\ pc' = "store_tweets"
    /\ UNCHANGED otherVars
    /\ UNCHANGED <<checkpoint, dbTweets, callVars, platformVars, botStartTime, cpAtStart,
                   sinceTweetId, sinceTime, mentions, requests, responses, replyIdx, outcome,
                   failedAt, tweetsCall, historyVars>>

\* get_user_mentions: db_connector.add_tweepy_tweets, then the mentions are returned.
StoreTweets ==
    /\ pc = "store_tweets"
    /\ dbTweets' = dbTweets \cup {<<"mention", m>> : m \in Range(mentions)}
    /\ pc' = "reply"
    /\ UNCHANGED otherVars
    /\ UNCHANGED <<checkpoint, dbUsers, callVars, platformVars, botStartTime, cpAtStart,
                   sinceTweetId, sinceTime, mentions, requests, responses, replyIdx, outcome,
                   failedAt, tweetsCall, historyVars>>

\* reply_to_mentions: one iteration of the loop that returns normally.
ReplyToMention ==
    /\ pc = "reply"
    /\ replyIdx < Len(mentions)
    /\ replyIdx' = replyIdx + 1
    /\ delivered' = delivered \cup {mentions[replyIdx + 1]}
    /\ UNCHANGED otherVars
    /\ UNCHANGED <<dbVars, callVars, platformVars, botStartTime, pc, cpAtStart, sinceTweetId,
                   sinceTime, mentions, requests, responses, outcome, failedAt, tweetsCall,
                   fetched>>

\* reply_to_mentions: one iteration of the loop in which a call raises; nothing
\* catches it, so the exception leaves the loop and the cycle.
ReplyToMentionRaises ==
    /\ pc = "reply"
    /\ replyIdx < Len(mentions)
    /\ replyIdx' = replyIdx + 1
    /\ delivered' = delivered \cup {mentions[replyIdx + 1]}
    /\ pc' = "idle"
    /\ outcome' = "aborted"
    /\ failedAt' = "reply"
    /\ UNCHANGED otherVars
    /\ UNCHANGED <<dbVars, callVars, platformVars, botStartTime, cpAtStart, sinceTweetId,
                   sinceTime, mentions, requests, responses, tweetsCall, fetched>>

\* reply_to_mentions returns and the cycle ends.
FinishMentionsCycle ==
    /\ pc = "reply"
    /\ replyIdx = Len(mentions)
    /\ pc' = "idle"
    /\ outcome' = "done"
    /\ UNCHANGED otherVars
    /\ UNCHANGED <<dbVars, callVars, platformVars, botStartTime, cpAtStart, sinceTweetId,
                   sinceTime, mentions, requests, responses, replyIdx, failedAt, tweetsCall,
                   historyVars>>

\* The store or platform call the cycle is waiting on raises: the exception
\* propagates out of run_reply_guy_mentions_cycle.
CallRaises ==
    /\ pc \in CyclePcs \ {"reply"}
    /\ pc' = "idle"
    /\ outcome' = "aborted"
    /\ failedAt' = pc
    /\ UNCHANGED otherVars
    /\ UNCHANGED <<dbVars, callVars, platformVars, botStartTime, cpAtStart, sinceTweetId,
                   sinceTime, mentions, requests, responses, replyIdx, tweetsCall, historyVars>>

\* The process dies mid-cycle and is started again: the database stays, the
\* cycle's locals are gone and bot_start_time is taken anew.
CrashAndRestart ==
    /\ pc \in CyclePcs
    /\ pc' = "idle"
    /\ outcome' = "crashed"
    /\ failedAt' = pc
    /\ botStartTime' = CreatedAt(platformNewest + 1)
    /\ UNCHANGED otherVars
    /\ UNCHANGED <<dbVars, callVars, platformVars, cpAtStart, sinceTweetId, sinceTime,
                   mentions, requests, responses, replyIdx, tweetsCall, historyVars>>

\* get_user_latest_tweets for the followed account (one request, no loop).
GetUserLatestTweets ==
    LET cp == get_checkpoint(checkpoint, TweetsKey)
        since_id == id_filter(cp)
        since_time == time_filter(cp, botStartTime)
        tweets == TweetsSince(followedNewest, since_id, since_time)
        latest_tweet_id == IF tweets = {} THEN 0 ELSE Max(tweets)
    IN  /\ tweetsCall' = [cp |-> cp, floor |-> botStartTime, since_id |-> since_id,
                          since_time |-> since_time, called |-> TRUE]
        /\ checkpoint' = IF latest_tweet_id # 0
                         THEN update_checkpoint(checkpoint, TweetsKey, latest_tweet_id)
                         ELSE checkpoint
        /\ dbUsers' = IF latest_tweet_id # 0 /\ cp = 0
                      THEN UsersAfterLookup(dbUsers, FollowedId) ELSE dbUsers
        /\ dbTweets' = dbTweets \cup {<<"followed", t>> : t \in tweets}
        /\ UNCHANGED otherVars
        /\ UNCHANGED <<callVars, platformVars, botStartTime, cycleVars, historyVars>>

(***************************************************************************)
(* Reply-guy scheduler (main.py: AsyncIOScheduler with two interval jobs)  *)
(***************************************************************************)
\* Run times of one job the scheduler processes.
MaxTicks == 3
\* Run times of one job that may pass before the scheduler wakes up.
MaxDue == 2

MENTIONS_JOB == "reply-guy-mentions"
FOLLOWERS_JOB == "reply-guy-followers"
Jobs == {MENTIONS_JOB, FOLLOWERS_JOB}

\* max_instances=1 in both add_job calls.
max_instances == 1

\* The query type of the checkpoints a job's cycle reads and writes.
JobQueryType(job) == IF job = MENTIONS_JOB THEN USER_MENTIONS ELSE USER_TWEETS

\* A variant without the limit on running instances.
MaxInstancesNeverReached(running) == FALSE

\* The executor refuses to submit a job that has max_instances instances running.
MaxInstancesReached(running) == running >= max_instances

\* A sequence without its i-th element.
RemoveAt(s, i) == SubSeq(s, 1, i - 1) \o SubSeq(s, i + 1, Len(s))

InitSchedIdle ==
    /\ jobRuns = [j \in Jobs |-> <<>>]
    /\ jobDue = [j \in Jobs |-> 0]
    /\ jobTicks = [j \in Jobs |-> 0]
    /\ jobSkipped = [j \in Jobs |-> 0]

\* The interval of the job's trigger elapses: one more run time is due.
IntervalElapses(job) ==
    /\ jobTicks[job] < MaxTicks
    /\ jobDue[job] < MaxDue
    /\ jobDue' = [jobDue EXCEPT ![job] = @ + 1]
    /\ UNCHANGED <<jobRuns, jobTicks, jobSkipped, mainVars, threadVars, replyVars, postVars, slackVars>>

\* The scheduler wakes up and processes the job: coalesce=True turns all the due
\* run times into one run, misfire_grace_time=None never drops it as late, and
\* the run is submitted unless max_instances instances are running, in which
\* case it is skipped.
ProcessDueJob(job) ==
    /\ jobDue[job] > 0
    /\ jobDue' = [jobDue EXCEPT ![job] = 0]
    /\ jobTicks' = [jobTicks EXCEPT ![job] = @ + 1]
    /\ IF MaxInstancesReached(Len(jobRuns[job]))
       THEN /\ jobSkipped' = [jobSkipped EXCEPT ![job] = @ + 1]
            /\ UNCHANGED jobRuns
       ELSE /\ jobRuns' = [jobRuns EXCEPT ![job] = Append(@, "lookup")]
            /\ UNCHANGED jobSkipped
    /\ UNCHANGED <<mainVars, threadVars, replyVars, postVars, slackVars>>

\* A running cycle moves on: the checkpoint is read at "lookup" and written at
\* the end of "fetch".
RunAdvances(job, i) ==
    /\ i \in DOMAIN jobRuns[job]
    /\ jobRuns[job][i] \in {"lookup", "fetch"}
    /\ jobRuns' = [jobRuns EXCEPT ![job][i] = IF @ = "lookup" THEN "fetch" ELSE "reply"]
    /\ UNCHANGED <<jobDue, jobTicks, jobSkipped, mainVars, threadVars, replyVars, postVars, slackVars>>

\* A running cycle returns: the executor counts one instance less.
RunFinishes(job, i) ==
    /\ i \in DOMAIN jobRuns[job]
    /\ jobRuns[job][i] = "reply"
    /\ jobRuns' = [jobRuns EXCEPT ![job] = RemoveAt(@, i)]
    /\ UNCHANGED <<jobDue, jobTicks, jobSkipped, mainVars, threadVars, replyVars, postVars, slackVars>>

\* A running cycle raises: the executor logs it and counts one instance less.
RunRaises(job, i) ==
    /\ i \in DOMAIN jobRuns[job]
    /\ jobRuns' = [jobRuns EXCEPT ![job] = RemoveAt(@, i)]
    /\ UNCHANGED <<jobDue, jobTicks, jobSkipped, mainVars, threadVars, replyVars, postVars, slackVars>>

(***************************************************************************)
(* Thread reconstruction (twitter_client.py)                               *)
(***************************************************************************)
\* Number of tweets the platform holds for the thread walk.
MaxThreadTweets == 3
ThreadIds == 1..MaxThreadTweets
\* The tagged tweet the walk starts from: the newest one.
TaggedId == MaxThreadTweets
\* Longest parent_tweets the walk is followed to.
MaxWalk == MaxThreadTweets + 1

REPLY == "replied_to"
QUOTE == "quoted"
Ref(type, id) == [type |-> type, id |-> id]

\* The values of tweet.referenced_tweets: None, a quote, a reply, a quote and a reply.
ReferencedTweets ==
    {<<>>, <<Ref(QUOTE, TaggedId)>>}
        \cup {<<Ref(REPLY, j)>> : j \in ThreadIds}
        \cup {<<Ref(QUOTE, TaggedId), Ref(REPLY, j)>> : j \in ThreadIds}

\* client.get_tweet: None when the platform has no data for the id.
get_tweet_from_tweet_id(missing, id) == IF id = missing THEN 0 ELSE id

\* The ids of the references of type replied_to, in order.
ReplyRefs(refs) == SelectSeq(refs, LAMBDA r : r.type = REPLY)

\* get_parent_tweet: parent 0 is None; raised is the StopIteration of next()
\* when no reference is a reply.
get_parent_tweet(tweets, missing, t) ==
    IF tweets[t].conversation_id = t THEN [raised |-> FALSE, parent |-> 0]
    ELSE IF tweets[t].referenced_tweets = <<>> THEN [raised |-> FALSE, parent |-> 0]
    ELSE IF ReplyRefs(tweets[t].referenced_tweets) = <<>> THEN [raised |-> TRUE, parent |-> 0]
    ELSE [raised |-> FALSE,
          parent |-> get_tweet_from_tweet_id(missing, ReplyRefs(tweets[t].referenced_tweets)[1].id)]

\* MentionType
TAGGED_IN_ORIGINAL == "TAGGED_IN_ORIGINAL"
TAGGED_IN_DIRECT_REPLY == "TAGGED_IN_DIRECT_REPLY"
TAGGED_IN_THREAD == "TAGGED_IN_THREAD"

\* A variant that never classifies a mention as tagged in the original tweet.
mention_type_never_original(original_tweet, replies) ==
    IF replies = <<>> THEN TAGGED_IN_DIRECT_REPLY ELSE TAGGED_IN_THREAD

\* TweetMention.mention_type; original_tweet 0 is None.
mention_type(original_tweet, replies) ==
    IF original_tweet = 0 THEN TAGGED_IN_ORIGINAL
    ELSE IF replies = <<>> THEN TAGGED_IN_DIRECT_REPLY
    ELSE TAGGED_IN_THREAD

\* enrich_user_mention: original_tweet = parent_tweets[0] if parent_tweets else
\* None, replies = parent_tweets[1:].
enrich_user_mention(tagged, parents) ==
    [tagged_tweet |-> tagged,
     original_tweet |-> IF parents # <<>> THEN parents[1] ELSE 0,
     replies |-> IF parents # <<>> THEN Tail(parents) ELSE <<>>]

\* reply_to_mentions: original_tweet = mention.tagged_tweet if the mention is
\* tagged in the original tweet, else mention.original_tweet;
\* quote_tweet_id = original_tweet.id.
quote_tweet_id_of(mention) ==
    IF mention_type(mention.original_tweet, mention.replies) = TAGGED_IN_ORIGINAL
    THEN mention.tagged_tweet
    ELSE mention.original_tweet

NoMention == [tagged_tweet |-> 0, original_tweet |-> 0, replies |-> <<>>]

InitThreadIdle ==
    /\ thMention = NoMention
    /\ thTweets = [i \in ThreadIds |-> [conversation_id |-> i, referenced_tweets |-> <<>>]]
    /\ thMissing = 0
    /\ tweet = TaggedId
    /\ parent_tweets = <<>>
    /\ thPc = "idle"
    /\ thResult = <<>>

\* get_all_parent_tweets(tweet) is called on some platform data: every tweet is
\* its own conversation root or belongs to the conversation of tweet 1.
InitThread ==
    /\ \E own \in SUBSET (ThreadIds \ {1}), refs \in [ThreadIds -> ReferencedTweets] :
          thTweets = [i \in ThreadIds |->
                        [conversation_id |-> IF i \in own THEN i ELSE 1,
                         referenced_tweets |-> refs[i]]]
    /\ thMissing \in {0} \cup ThreadIds
    /\ thMention = NoMention
    /\ tweet = TaggedId
    /\ parent_tweets = <<>>
    /\ thPc = "walk"
    /\ thResult = <<>>

\* One iteration of `while True` that finds a parent: append it and continue.
WalkToParent ==
    /\ thPc = "walk"
    /\ Len(parent_tweets) < MaxWalk
    /\ ~get_parent_tweet(thTweets, thMissing, tweet).raised
    /\ get_parent_tweet(thTweets, thMissing, tweet).parent # 0
    /\ parent_tweets' = Append(parent_tweets, get_parent_tweet(thTweets, thMissing, tweet).parent)
    /\ tweet' = get_parent_tweet(thTweets, thMissing, tweet).parent
    /\ UNCHANGED <<thTweets, thMissing, thPc, thResult, thMention, mainVars, schedVars, replyVars, postVars, slackVars>>

\* The iteration that finds no parent: break, then
\* return sorted(parent_tweets, key=lambda i: i.created_at).
ReturnParents ==
    /\ thPc = "walk"
    /\ ~get_parent_tweet(thTweets, thMissing, tweet).raised
    /\ get_parent_tweet(thTweets, thMissing, tweet).parent = 0
    /\ thResult' = SortedByCreatedAt(parent_tweets)
    /\ thPc' = "done"
    /\ UNCHANGED <<thTweets, thMissing, tweet, parent_tweets, thMention, mainVars, schedVars, replyVars, postVars, slackVars>>

\* The iteration in which get_parent_tweet raises.
GetParentRaises ==
    /\ thPc = "walk"
    /\ get_parent_tweet(thTweets, thMissing, tweet).raised
    /\ thPc' = "raised"
    /\ UNCHANGED <<thTweets, thMissing, tweet, parent_tweets, thResult, thMention, mainVars,
                   schedVars, replyVars, postVars, slackVars>>

\* enrich_user_mention builds the mention from the list get_all_parent_tweets returned.
EnrichUserMention ==
    /\ thPc = "done"
    /\ thMention' = enrich_user_mention(TaggedId, thResult)
    /\ thPc' = "enriched"
    /\ UNCHANGED <<thTweets, thMissing, tweet, parent_tweets, thResult, mainVars, schedVars, replyVars, postVars, slackVars>>

(***************************************************************************)
(* Strings (str methods and the regular expression the code uses)          *)
(***************************************************************************)
Char(s, i) == SubSeq(s, i, i)

\* \w and \s over the characters the texts below are made of.
WordChars ==
    {"a", "b", "c", "d", "e", "f", "g", "h", "i", "j", "k", "l", "m", "n", "o", "p", "q",
     "r", "s", "t", "u", "v", "w", "x", "y", "z", "A", "B", "C", "U", "_", "0", "1"}
Whitespace == {" ", "\n", "\t"}

\* s.startswith(prefix)
startswith(s, prefix) == Len(s) >= Len(prefix) /\ SubSeq(s, 1, Len(prefix)) = prefix

\* sub in s
Contains(s, sub) ==
    \E i \in 1..(Len(s) - Len(sub) + 1) : SubSeq(s, i, i + Len(sub) - 1) = sub

\* A variant that only counts an occurrence at the start of the text.
count_at_start(s, sub) == IF startswith(s, sub) THEN 1 ELSE 0

RECURSIVE CountFrom(_, _, _)
\* Occurrences of sub in s from index i on, left to right, not overlapping.
CountFrom(s, sub, i) ==
    IF i + Len(sub) - 1 > Len(s) THEN 0
    ELSE IF SubSeq(s, i, i + Len(sub) - 1) = sub
         THEN 1 + CountFrom(s, sub, i + Len(sub))
         ELSE CountFrom(s, sub, i + 1)

\* s.count(sub)
count(s, sub) == CountFrom(s, sub, 1)

RECURSIVE RemoveChar(_, _)
\* s.replace(c, "") for a single character c
RemoveChar(s, c) ==
    IF s = "" THEN ""
    ELSE IF Char(s, 1) = c THEN RemoveChar(SubSeq(s, 2, Len(s)), c)
    ELSE Char(s, 1) \o RemoveChar(SubSeq(s, 2, Len(s)), c)

RECURSIVE RunEnd(_, _, _)
\* The index after the longest run of characters of S that starts at i.
RunEnd(s, i, S) == IF i <= Len(s) /\ Char(s, i) \in S THEN RunEnd(s, i + 1, S) ELSE i

\* One match of @\w+\s+ at i: the index after it, i when there is none.
TagEnd(s, i) ==
    IF i <= Len(s) /\ Char(s, i) = "@"
    THEN LET w == RunEnd(s, i + 1, WordChars)
             ws == RunEnd(s, w, Whitespace)
         IN  IF w > i + 1 /\ ws > w THEN ws ELSE i
    ELSE i

RECURSIVE TagsEnd(_, _)
\* The match of ^(@\w+\s+)* : the index after the last repetition.
TagsEnd(s, i) == IF TagEnd(s, i) > i THEN TagsEnd(s, TagEnd(s, i)) ELSE i

RECURSIVE LastNonSpace(_, _)
LastNonSpace(s, i) == IF i >= 1 /\ Char(s, i) \in Whitespace THEN LastNonSpace(s, i - 1) ELSE i

\* s.strip()
strip(s) == SubSeq(s, RunEnd(s, 1, Whitespace), LastNonSpace(s, Len(s)))

\* re.sub(r"^(@\w+\s+)*", "", tweet_contents).strip()
remove_tweet_reply_tags(tweet_contents) ==
    strip(SubSeq(tweet_contents, TagsEnd(tweet_contents, 1), Len(tweet_contents)))

(***************************************************************************)
(* Reply heuristic (twitter_client.py: should_reply_to_mention)            *)
(***************************************************************************)
\* Longest tagged-tweet text, in tokens.
MaxTextTokens == 3

\* What a tweet's text is made of: the bot's tag, the tag of an account whose
\* handle starts with the bot's, another account's tag, a word, and a word
\* that holds the bot's handle.
TagTokens == {"@bot", "@botty", "@UserA"}
Tokens == TagTokens \cup {"hey", "re:@bot"}
BotHandles == {"bot", "@bot"}

RECURSIVE JoinTokens(_)
\* " ".join(tokens)
JoinTokens(ts) ==
    IF Len(ts) = 1 THEN ts[1] ELSE ts[1] \o " " \o JoinTokens(Tail(ts))

TokenSeqs == UNION {[1..n -> Tokens] : n \in 1..MaxTextTokens}

\* tweet.attachments: None, a poll, media.
Attachments == {{}, {"poll_ids"}, {"media_keys"}}

\* A variant that never sees media.
has_media_never(attachments) == FALSE

\* HydratedTweet.has_media
has_media(attachments) == attachments # {} /\ "media_keys" \in attachments

Tweet(text, attachments, username) ==
    [text |-> text, attachments |-> attachments, username |-> username]

\* The tagged tweets: the tokens joined by blanks, with or without a blank at the end.
TaggedTweets ==
    {[tokens |-> ts, trailing |-> tr, attachments |-> a,
      text |-> IF tr THEN JoinTokens(ts) \o " " ELSE JoinTokens(ts), username |-> "UserB"] :
        ts \in TokenSeqs, tr \in BOOLEAN, a \in Attachments}

OriginalTweets ==
    {Tweet(t, {}, "UserA") : t \in {"Some post", "Some post about @bot", "cc @botty"}}
        \cup {Tweet("Some post about @bot", {"media_keys"}, "UserA")}

\* get_username() of a reply: its author's username, "Unknown" when the lookup finds none.
ReplyTweets ==
    {Tweet(t, {}, u) : t \in {"@UserA Some response", "@UserA hey @bot"},
                       u \in {"UserB", "bot", "Unknown"}}

ReplyLists ==
    {<<>>} \cup {<<r>> : r \in ReplyTweets}
           \cup {<<Tweet("@UserA Some response", {}, "UserB"), r>> :
                    r \in {Tweet("@UserB ok", {}, "bot"), Tweet("@UserB hey @bot", {}, "UserA")}}

\* The mentions enrich_user_mention can build: original_tweet is <<>> for None,
\* and then there are no replies.
Mentions ==
    {[tagged_tweet |-> t, original_tweet |-> <<>>, replies |-> <<>>] : t \in TaggedTweets}
        \cup {[tagged_tweet |-> t, original_tweet |-> <<o>>, replies |-> r] :
                t \in TaggedTweets, o \in OriginalTweets, r \in ReplyLists}

\* mention.mention_type
MentionTypeOf(mention) ==
    mention_type(IF mention.original_tweet = <<>> THEN 0 ELSE 1, mention.replies)

Returns(value) == [raised |-> FALSE, value |-> value]
Raises == [raised |-> TRUE, value |-> FALSE]

\* bot_handle if bot_handle.startswith("@") else f"@{bot_handle}"
with_at(bot_handle) == IF startswith(bot_handle, "@") THEN bot_handle ELSE "@" \o bot_handle

\* A variant that asks for more than two tags.
tagged_twice_strict(num_bot_tags) == num_bot_tags > 2

\* if num_bot_tags >= 2
tagged_twice(num_bot_tags) == num_bot_tags >= 2

\* A variant that answers without looking at the original tweet.
direct_reply_rule_always(bot_tagged_in_original) == TRUE

\* should_reply = not bot_tagged_in_original
direct_reply_rule(bot_tagged_in_original) == ~bot_tagged_in_original

\* A variant that forgets the bot's own replies.
thread_rule_ignores_repliers(bot_replied_earlier, bot_tagged_earlier) == ~bot_tagged_earlier

\* if not bot_replied_earlier and not bot_tagged_earlier: return True ... return False
thread_rule(bot_replied_earlier, bot_tagged_earlier) ==
    ~bot_replied_earlier /\ ~bot_tagged_earlier

\* The rules after the media and the original-tweet rule; .text of a missing
\* original tweet is an AttributeError.
should_reply_in_thread(bot_handle, mention) ==
    IF mention.original_tweet = <<>> THEN Raises
    ELSE
    LET tagged_tweet_contents == mention.tagged_tweet.text
        original_tweet_contents == mention.original_tweet[1].text
        message == remove_tweet_reply_tags(mention.tagged_tweet.text)
        num_bot_tags == count(tagged_tweet_contents, bot_handle)
        bot_tagged_in_original == Contains(original_tweet_contents, bot_handle)
        previous_repliers == {mention.replies[i].username : i \in DOMAIN mention.replies}
        bot_replied_earlier == RemoveChar(bot_handle, "@") \in previous_repliers
        bot_tagged_earlier ==
            bot_tagged_in_original
                \/ \E i \in DOMAIN mention.replies : Contains(mention.replies[i].text, bot_handle)
    IN  IF ~Contains(tagged_tweet_contents, bot_handle) THEN Returns(FALSE)
        ELSE IF Contains(message, bot_handle) THEN Returns(TRUE)
        ELSE IF tagged_twice(num_bot_tags) THEN Returns(TRUE)
        ELSE IF num_bot_tags # 1 THEN Raises
        ELSE IF MentionTypeOf(mention) = TAGGED_IN_DIRECT_REPLY
             THEN Returns(direct_reply_rule(bot_tagged_in_original))
        ELSE Returns(thread_rule(bot_replied_earlier, bot_tagged_earlier))

\* should_reply_to_mention(bot_handle, mention)
should_reply_to_mention(bot_handle, mention) ==
    IF has_media(mention.tagged_tweet.attachments)
        \/ (mention.original_tweet # <<>> /\ has_media(mention.original_tweet[1].attachments))
    THEN Returns(FALSE)
    ELSE IF MentionTypeOf(mention) = TAGGED_IN_ORIGINAL THEN Returns(TRUE)
    ELSE should_reply_in_thread(with_at(bot_handle), mention)

NoReplyCall == [called |-> FALSE, raised |-> FALSE, value |-> FALSE]

InitReplyIdle ==
    /\ srArgs = [bot_handle |-> "bot",
                 mention |-> [tagged_tweet |-> Tweet("@bot", {}, "UserA"),
                              original_tweet |-> <<>>, replies |-> <<>>]]
    /\ srResult = NoReplyCall

\* reply_to_mentions is about to ask should_reply_to_mention about some mention.
InitReply ==
    /\ srArgs \in [bot_handle : BotHandles, mention : Mentions]
    /\ srResult = NoReplyCall

\* await should_reply_to_mention(bot_handle=agent_profile.twitter_handle, mention=mention)
ShouldReplyToMention ==
    /\ ~srResult.called
    /\ srResult' = [called |-> TRUE,
                    raised |-> should_reply_to_mention(srArgs.bot_handle, srArgs.mention).raised,
                    value |-> should_reply_to_mention(srArgs.bot_handle, srArgs.mention).value]
    /\ UNCHANGED <<srArgs, mainVars, schedVars, threadVars, postVars, slackVars>>

(***************************************************************************)
(* Response dispatch (twitter_client.py: post_tweet_response)              *)
(***************************************************************************)
\* Highest rating and threshold.
MaxRating == 2
Ratings == 0..MaxRating

\* The tweet replied to, its conversation, the tweet quoted, and the id the
\* platform gives the new tweet.
ConversationId == 1
QuoteTweetId == 2
ReplyToTweetId == 3
NewTweetId == 9

\* No id (None).
NoId == 0

\* random.random() and quote_tweet_threshold, in halves: 0.0 and 0.5; 0.0, 0.5 and 1.0.
RandomDraws == {0, 1}
QuoteThresholds == {0, 1, 2}

REPLY_TYPE == "reply"
QUOTE_TYPE == "quote"
ORIGINAL_TYPE == "original"

\* What a call has done so far: the meme generator asked, the image
\* downloaded, the random sample drawn, the create_tweet requests sent, the
\* tweets written to the store, and the value returned (<<>> for None).
Effects(generated, downloaded, drew, posts, stored, returned) ==
    [generated |-> generated, downloaded |-> downloaded, drew |-> drew,
     posts |-> posts, stored |-> stored, returned |-> returned]

\* A variant that looks at the quoted tweet first.
tweet_type_quote_first(in_reply_to_tweet_id, quote_tweet_id) ==
    IF quote_tweet_id # NoId THEN QUOTE_TYPE
    ELSE IF in_reply_to_tweet_id # NoId THEN REPLY_TYPE
    ELSE ORIGINAL_TYPE

\* tweet_type: REPLY if in_reply_to_tweet_id is not None, QUOTE elif
\* quote_tweet_id is not None, else ORIGINAL.
tweet_type_of(in_reply_to_tweet_id, quote_tweet_id) ==
    IF in_reply_to_tweet_id # NoId THEN REPLY_TYPE
    ELSE IF quote_tweet_id # NoId THEN QUOTE_TYPE
    ELSE ORIGINAL_TYPE

\* post_tweet: one create_tweet request; with an id in the response the tweet
\* is written to the store and the id returned, else None.
post_tweet(response_id, conversation_id, in_reply_to_tweet_id, quote_tweet_id, media) ==
    LET request == [in_reply_to_tweet_id |-> in_reply_to_tweet_id,
                    quote_tweet_id |-> quote_tweet_id, media |-> media]
        tweet_type == tweet_type_of(in_reply_to_tweet_id, quote_tweet_id)
        row == [tweet_id |-> response_id, tweet_type |-> tweet_type,
                conversation_id |-> IF in_reply_to_tweet_id # NoId THEN conversation_id
                                    ELSE response_id,
                reply_to_id |-> in_reply_to_tweet_id, quote_tweet_id |-> quote_tweet_id,
                media |-> media]
    IN  IF response_id = NoId
        THEN [posts |-> <<request>>, stored |-> <<>>, returned |-> <<>>]
        ELSE [posts |-> <<request>>, stored |-> <<row>>, returned |-> <<response_id>>]

\* reply_to_tweet_with_image: download, upload, post_tweet with the media.
reply_to_tweet_with_image(download_ok, response_id, conversation_id, reply_to_id) ==
    IF ~download_ok
    THEN [posts |-> <<>>, stored |-> <<>>, returned |-> <<>>]
    ELSE post_tweet(response_id, conversation_id, reply_to_id, NoId, TRUE)

\* A variant that asks for a rating above the threshold.
meme_rating_reached_strict(meme_rating, meme_threshold) == meme_rating > meme_threshold

\* if int(evaluation.meme_rating) >= meme_threshold
meme_rating_reached(meme_rating, meme_threshold) == meme_rating >= meme_threshold

\* A variant that also skips a rating at the threshold.
below_text_threshold_or_at(response_rating, text_threshold) == response_rating <= text_threshold

\* if int(evaluation.response_rating) < text_threshold
below_text_threshold(response_rating, text_threshold) == response_rating < text_threshold

\* should_quote_tweet = random.random() <= agent_profile.quote_tweet_threshold
should_quote_tweet(draw, quote_tweet_threshold) == draw <= quote_tweet_threshold

\* post_tweet_response
post_tweet_response(a) ==
    LET generated == meme_rating_reached(a.meme_rating, a.meme_threshold)
        image == reply_to_tweet_with_image(a.download_ok, a.response_id,
                                           a.conversation_id, a.reply_to_tweet_id)
        quote == post_tweet(a.response_id, NoId, NoId, a.quote_tweet_id, FALSE)
        reply == post_tweet(a.response_id, a.conversation_id, a.reply_to_tweet_id, NoId, FALSE)
    IN  IF generated /\ a.meme_caption # <<>>
        THEN Effects(TRUE, TRUE, FALSE, image.posts, image.stored, image.returned)
        ELSE IF below_text_threshold(a.response_rating, a.text_threshold)
        THEN Effects(generated, FALSE, FALSE, <<>>, <<>>, <<>>)
        ELSE IF should_quote_tweet(a.draw, a.quote_tweet_threshold)
        THEN Effects(generated, FALSE, TRUE, quote.posts, quote.stored, quote.returned)
        ELSE Effects(generated, FALSE, TRUE, reply.posts, reply.stored, reply.returned)

PostArgs ==
    [meme_rating : Ratings, response_rating : Ratings,
     meme_threshold : Ratings, text_threshold : Ratings,
     meme_caption : {<<>>, <<"url">>}, download_ok : BOOLEAN,
     response_id : {NoId, NewTweetId},
     draw : RandomDraws, quote_tweet_threshold : QuoteThresholds,
     conversation_id : {ConversationId}, reply_to_tweet_id : {ReplyToTweetId},
     quote_tweet_id : {QuoteTweetId}]

NoPostCall == [called |-> FALSE, effects |-> Effects(FALSE, FALSE, FALSE, <<>>, <<>>, <<>>)]

NoTweetCall ==
    [called |-> FALSE, raised |-> FALSE, posts |-> <<>>, stored |-> <<>>, returned |-> <<>>]

InitResponseIdle ==
    /\ ptArgs = [meme_rating |-> 0, response_rating |-> 0, meme_threshold |-> 0,
                 text_threshold |-> 0, meme_caption |-> <<>>, download_ok |-> TRUE,
                 response_id |-> NewTweetId, draw |-> 0, quote_tweet_threshold |-> 0,
                 conversation_id |-> ConversationId, reply_to_tweet_id |-> ReplyToTweetId,
                 quote_tweet_id |-> QuoteTweetId]
    /\ ptResult = NoPostCall

InitTweetIdle ==
    /\ twArgs = [response_id |-> NewTweetId, conversation_id |-> NoId,
                 in_reply_to_tweet_id |-> NoId, quote_tweet_id |-> NoId, media |-> FALSE]
    /\ twResult = NoTweetCall

InitPostIdle == InitResponseIdle /\ InitTweetIdle

\* A scored response is about to be dispatched.
InitPost ==
    /\ ptArgs \in PostArgs
    /\ ptResult = NoPostCall
    /\ InitTweetIdle

\* await post_tweet_response(agent_profile, evaluation, meme_threshold, text_threshold, ...)
PostTweetResponse ==
    /\ ~ptResult.called
    /\ ptResult' = [called |-> TRUE, effects |-> post_tweet_response(ptArgs)]
    /\ UNCHANGED <<ptArgs, twArgs, twResult, mainVars, schedVars, threadVars, replyVars, slackVars>>

\* The ways post_tweet is called: alone, as a reply in a conversation, as a
\* quote tweet, with or without media, and the id in the platform's answer.
TweetArgs ==
    [response_id : {NoId, NewTweetId, NewTweetId + 1},
     conversation_id : {NoId, ConversationId, ReplyToTweetId},
     in_reply_to_tweet_id : {NoId, ReplyToTweetId},
     quote_tweet_id : {NoId, QuoteTweetId, ReplyToTweetId},
     media : BOOLEAN]

InitTweet ==
    /\ InitResponseIdle
    /\ twArgs \in TweetArgs
    /\ twResult = NoTweetCall

\* await post_tweet(...): the assertion on the arguments, then the request
\* and the write to the store.
PostTweet ==
    /\ ~twResult.called
    /\ twResult' =
        IF twArgs.in_reply_to_tweet_id # NoId /\ twArgs.conversation_id = NoId
        THEN [called |-> TRUE, raised |-> TRUE, posts |-> <<>>, stored |-> <<>>, returned |-> <<>>]
        ELSE LET p == post_tweet(twArgs.response_id, twArgs.conversation_id,
                                 twArgs.in_reply_to_tweet_id, twArgs.quote_tweet_id,
                                 twArgs.media)
             IN  [called |-> TRUE, raised |-> FALSE, posts |-> p.posts,
                  stored |-> p.stored, returned |-> p.returned]
    /\ UNCHANGED <<twArgs, ptArgs, ptResult, mainVars, schedVars, threadVars, replyVars, slackVars>>

(***************************************************************************)
(* Slack adapter (slack/types.py: SlackHandler.register_handler)           *)
(***************************************************************************)
\* maxsize and ttl of the TTLCache (1000 entries and 300 seconds in the
\* code), the distinct message ids, the clock and the deliveries followed.
CacheMaxSize == 2
CacheTtl == 2
MaxSlackMessages == 3
MaxSlackTime == 3
MaxSlackDeliveries == 4

\* channel_id the handler is registered for, and another channel.
SlackChannel == "C1"
OtherChannel == "C2"

\* SlackMessage.from_dict: id = message["ts"], channel = message["channel"].
SlackMessages ==
    [id : {ToString(i) : i \in 1..MaxSlackMessages}, channel : {SlackChannel, OtherChannel}]

\* SlackMessage.cache_key
cache_key(message) == message.channel \o ":" \o message.id

\* TTLCache.expire: the entries whose time has come are removed.
expire(cache, time) == SelectSeq(cache, LAMBDA e : time < e.expires)

\* _message_cache.get(key) is not None
cache_has(cache, time, key) ==
    \E i \in DOMAIN expire(cache, time) : expire(cache, time)[i].key = key

\* _message_cache[key] = True: expired entries go, then the oldest entry while
\* the cache is full, then the key is added with expiry time + ttl.
cache_set(cache, time, key) ==
    LET live == SelectSeq(expire(cache, time), LAMBDA e : e.key # key)
        room == IF Len(live) >= CacheMaxSize
                THEN SubSeq(live, Len(live) - CacheMaxSize + 2, Len(live))
                ELSE live
    IN  Append(room, [key |-> key, expires |-> time + CacheTtl])

IGNORED == "ignored"
DUPLICATE == "duplicate"
HANDLED == "handled"

InitSlack ==
    /\ slCache = <<>>
    /\ slNow = 0
    /\ slLog = <<>>

\* Slack delivers a message, for the first time or again: wrapped_handler.
WrappedHandler(message) ==
    /\ Len(slLog) < MaxSlackDeliveries
    /\ LET key == cache_key(message)
           what == IF message.channel # SlackChannel THEN IGNORED
                   ELSE IF cache_has(slCache, slNow, key) THEN DUPLICATE
                   ELSE HANDLED
       IN  /\ slLog' = Append(slLog, [channel |-> message.channel, id |-> message.id,
                                      time |-> slNow, what |-> what])
           /\ slCache' = IF what = HANDLED THEN cache_set(slCache, slNow, key) ELSE slCache
    /\ UNCHANGED <<slNow, mainVars, schedVars, threadVars, replyVars, postVars>>

\* A second passes.
SlackTimePasses ==
    /\ slNow < MaxSlackTime
    /\ slNow' = slNow + 1
    /\ UNCHANGED <<slCache, slLog, mainVars, schedVars, threadVars, replyVars, postVars>>

NoCall == [op |-> "none", key |-> MentionsKey, tweet_id |-> 0, raised |-> FALSE]

\* Keys the checkpoint API is called with directly.
CallKeys == {MentionsKey, TweetsKey, UnknownKey}

InitDb ==
    /\ checkpoint = [k \in Keys |-> 0]
    /\ dbUsers = {}
    /\ dbTweets = {}

InitCalls ==
    /\ lastCall = NoCall
    /\ prevCheckpoint = [k \in Keys |-> 0]

\* await create_checkpoint(db, agent, user_id, query_type, tweet_id)
CreateCheckpointCall(key, tweet_id) ==
    LET raised == ~assert_user_exists(dbUsers, key[2]) \/ get_checkpoint(checkpoint, key) # 0
    IN  /\ lastCall' = [op |-> "create", key |-> key, tweet_id |-> tweet_id, raised |-> raised]
        /\ prevCheckpoint' = checkpoint
        /\ dbUsers' = UsersAfterLookup(dbUsers, key[2])
        /\ checkpoint' = IF raised THEN checkpoint ELSE create_checkpoint(checkpoint, key, tweet_id)
        /\ UNCHANGED otherVars
        /\ UNCHANGED <<dbTweets, platformVars, botStartTime, cycleVars, tweetsCall, historyVars>>

\* await update_checkpoint(db, agent, user_id, query_type, tweet_id)
UpdateCheckpointCall(key, tweet_id) ==
    LET raised == update_checkpoint_raises(checkpoint, dbUsers, key)
    IN  /\ lastCall' = [op |-> "update", key |-> key, tweet_id |-> tweet_id, raised |-> raised]
        /\ prevCheckpoint' = checkpoint
        /\ dbUsers' = IF get_checkpoint(checkpoint, key) # 0
                      THEN dbUsers ELSE UsersAfterLookup(dbUsers, key[2])
        /\ checkpoint' = IF raised THEN checkpoint ELSE update_checkpoint(checkpoint, key, tweet_id)
        /\ UNCHANGED otherVars
        /\ UNCHANGED <<dbTweets, platformVars, botStartTime, cycleVars, tweetsCall, historyVars>>

InitCheckpoint == InitDb /\ InitCalls /\ InitIdle /\ InitSchedIdle /\ InitThreadIdle
    /\ InitReplyIdle /\ InitPostIdle /\ InitSlack

NextCheckpoint ==
    \/ \E key \in CallKeys, tweet_id \in TweetIds : CreateCheckpointCall(key, tweet_id)
    \/ \E key \in CallKeys, tweet_id \in TweetIds : UpdateCheckpointCall(key, tweet_id)

SpecCheckpoint == InitCheckpoint /\ [][NextCheckpoint]_vars

Init == InitDb /\ InitCalls /\ InitPlatform /\ InitCycle /\ InitSchedIdle /\ InitThreadIdle
    /\ InitReplyIdle /\ InitPostIdle /\ InitSlack

Next ==
    \/ NewMention
    \/ NewFollowedTweet
    \/ StartMentionsCycle
    \/ BeginGetUserMentions
    \/ FetchBatch
    \/ UpdateMentionsCheckpoint
    \/ StoreAuthors
    \/ StoreTweets
    \/ ReplyToMention
    \/ ReplyToMentionRaises
    \/ FinishMentionsCycle
    \/ CallRaises
    \/ CrashAndRestart
    \/ GetUserLatestTweets

Spec == Init /\ [][Next]_vars

\* The mentions cycle on a platform that may leave newest_id out of an answer.
NextPaging ==
    \/ NewMention
    \/ StartMentionsCycle
    \/ BeginGetUserMentions
    \/ FetchBatch
    \/ FetchBatchNoNewestId
    \/ UpdateMentionsCheckpoint
    \/ StoreAuthors
    \/ StoreTweets
    \/ ReplyToMention
    \/ FinishMentionsCycle

SpecPaging == Init /\ [][NextPaging]_vars

InitSlackAdapter == InitDb /\ InitCalls /\ InitIdle /\ InitSchedIdle /\ InitThreadIdle
    /\ InitReplyIdle /\ InitPostIdle /\ InitSlack

NextSlack ==
    \/ \E message \in SlackMessages : WrappedHandler(message)
    \/ SlackTimePasses

SpecSlack == InitSlackAdapter /\ [][NextSlack]_vars

InitSched == InitDb /\ InitCalls /\ InitIdle /\ InitSchedIdle /\ InitThreadIdle
    /\ InitReplyIdle /\ InitPostIdle /\ InitSlack

NextSched ==
    \/ \E job \in Jobs : IntervalElapses(job)
    \/ \E job \in Jobs : ProcessDueJob(job)
    \/ \E job \in Jobs, i \in 1..MaxTicks : RunAdvances(job, i)
    \/ \E job \in Jobs, i \in 1..MaxTicks : RunFinishes(job, i)
    \/ \E job \in Jobs, i \in 1..MaxTicks : RunRaises(job, i)

SpecSched == InitSched /\ [][NextSched]_vars

InitThreadWalk == InitDb /\ InitCalls /\ InitIdle /\ InitSchedIdle /\ InitThread
    /\ InitReplyIdle /\ InitPostIdle /\ InitSlack

NextThread ==
    \/ WalkToParent
    \/ ReturnParents
    \/ GetParentRaises
    \/ EnrichUserMention

SpecThread == InitThreadWalk /\ [][NextThread]_vars

InitReplyCall == InitDb /\ InitCalls /\ InitIdle /\ InitSchedIdle /\ InitThreadIdle
    /\ InitReply /\ InitPostIdle /\ InitSlack

NextReply == ShouldReplyToMention

SpecReply == InitReplyCall /\ [][NextReply]_vars

InitPostCall == InitDb /\ InitCalls /\ InitIdle /\ InitSchedIdle /\ InitThreadIdle
    /\ InitReplyIdle /\ InitPost /\ InitSlack

NextPost == PostTweetResponse

SpecPost == InitPostCall /\ [][NextPost]_vars

InitTweetCall == InitDb /\ InitCalls /\ InitIdle /\ InitSchedIdle /\ InitThreadIdle
    /\ InitReplyIdle /\ InitTweet /\ InitSlack

NextTweet == PostTweet

SpecTweet == InitTweetCall /\ [][NextTweet]_vars

MentionsCheckpoint == get_checkpoint(checkpoint, MentionsKey)

\* The loop of get_all_user_mentions was left by one of its two breaks.
LoopLeft ==
    \/ pc \in {"update_checkpoint", "store_authors", "store_tweets", "reply"}
    \/ pc = "idle" /\ outcome = "done"
    \/ pc = "idle" /\ outcome \in {"aborted", "crashed"}
                   /\ failedAt \in {"update_checkpoint", "store_authors", "store_tweets", "reply"}

\* get_user_mentions is past its update_checkpoint step.
FetchCompleted == LoopLeft /\ pc # "update_checkpoint" /\ failedAt # "update_checkpoint"

\* The tweets the first request of the next cycle asks the platform for.
NextWindow ==
    TweetsSince(platformNewest, id_filter(MentionsCheckpoint),
                time_filter(MentionsCheckpoint, botStartTime))

(***************************************************************************)
(* C2                                                                      *)
(***************************************************************************)
\* C2: when a store or platform call fails at any step of a mentions cycle,
\* the cycle aborts with the user-mentions checkpoint equal to its value
\* before the cycle started.
C2_AbortKeepsCheckpoint ==
    (pc = "idle" /\ outcome = "aborted") => MentionsCheckpoint = cpAtStart

(***************************************************************************)
(* C3                                                                      *)
(***************************************************************************)
\* C3: delivery to the reply stage is at-least-once across restarts: after a
\* crash, every mention the cycle had fetched and the reply stage had not yet
\* taken is inside the window the next cycle requests, so it is fetched again.
C3_CrashRedelivers ==
    (pc = "idle" /\ outcome = "crashed") =>
        \A m \in Range(mentions) \ delivered : m \in NextWindow

(***************************************************************************)
(* C4                                                                      *)
(***************************************************************************)
\* C4: the request get_user_mentions and get_user_latest_tweets pass on carries
\* since-id = the stored checkpoint and no since-time whenever a checkpoint
\* exists for the key; the caller's since-time floor is passed only when no
\* checkpoint exists.
C4_CheckpointSelectsFilter ==
    /\ (pc \in CyclePcs /\ requests # <<>>) =>
          IF cpAtStart # 0
          THEN requests[1].since_id = cpAtStart /\ requests[1].since_time = 0
          ELSE requests[1].since_id = 0 /\ requests[1].since_time = botStartTime
    /\ \A k \in DOMAIN requests : requests[k].since_time # 0 => cpAtStart = 0
    /\ tweetsCall.called =>
          IF tweetsCall.cp # 0
          THEN tweetsCall.since_id = tweetsCall.cp /\ tweetsCall.since_time = 0
          ELSE tweetsCall.since_id = 0 /\ tweetsCall.since_time = tweetsCall.floor

\* C4 witness: both fetchers have issued a request with a checkpoint stored.
C4_Witness ==
    /\ pc \in CyclePcs
    /\ requests # <<>>
    /\ cpAtStart # 0
    /\ requests[1].since_id = cpAtStart
    /\ tweetsCall.called
    /\ tweetsCall.cp # 0

C6_BatchLoop ==
    /\ Len(responses) = Len(requests)
    /\ \A k \in 1..(Len(requests) - 1) :
          /\ responses[k].has_data
          /\ Len(responses[k].data) = BatchSize
          /\ requests[k + 1].since_id = responses[k].newest_id
    /\ (pc = "fetch" /\ responses # <<>>) =>
          /\ responses[Len(responses)].has_data
          /\ Len(responses[Len(responses)].data) = BatchSize
    /\ LoopLeft =>
          /\ responses # <<>>
          /\ \/ ~responses[Len(responses)].has_data
             \/ Len(responses[Len(responses)].data) < BatchSize

\* C6 witness: the loop ran three requests: two full batches, then no data.
C6_Witness ==
    /\ LoopLeft
    /\ Len(requests) = 3
    /\ ~responses[3].has_data

(***************************************************************************)
(* C8                                                                      *)
(***************************************************************************)
\* C8: a failure raised while reply_to_mentions processes one mention does not
\* prevent the remaining mentions of the batch from being attempted.
C8_FailureIsolated ==
    (pc = "idle" /\ outcome = "aborted" /\ failedAt = "reply") =>
        Range(mentions) \subseteq delivered

(***************************************************************************)
(* C7                                                                      *)
(***************************************************************************)
\* C7: for each ingestion kind at most one cycle is in flight at any time: a
\* tick that fires while the previous cycle of the kind is running starts no
\* second one, so no two running cycles work on checkpoints of the same
\* query type.
C7_AtMostOneInFlight ==
    /\ \A j \in Jobs : Len(jobRuns[j]) <= 1
    /\ \A j1 \in Jobs, j2 \in Jobs :
          \A i1 \in DOMAIN jobRuns[j1], i2 \in DOMAIN jobRuns[j2] :
              <<j1, i1>> # <<j2, i2>> => JobQueryType(j1) # JobQueryType(j2)

\* C7 witness: a run time of a job was skipped and its cycle is still running
\* between the read and the write of the checkpoint.
C7_Witness ==
    \E j \in Jobs :
        /\ jobSkipped[j] > 0
        /\ Len(jobRuns[j]) = 1
        /\ jobRuns[j][1] = "fetch"

(***************************************************************************)
(* C9                                                                      *)
(***************************************************************************)
\* C9: thread reconstruction terminates for every input, reply cycles
\* included: the walk appends a tweet at most once, so parent_tweets never
\* holds as many entries as the platform has tweets.
C9_TraversalTerminates == Len(parent_tweets) < MaxThreadTweets

(***************************************************************************)
(* C10                                                                     *)
(***************************************************************************)
RECURSIVE WellFormedChain(_, _, _, _)
\* t is the end of a reply chain of resolvable tweets that starts at root:
\* every tweet below the root is in the root's conversation and replies to an
\* older tweet of the chain.
WellFormedChain(tweets, missing, root, t) ==
    IF t = root THEN tweets[t].conversation_id = t
    ELSE /\ tweets[t].conversation_id = root
         /\ Len(ReplyRefs(tweets[t].referenced_tweets)) = 1
         /\ ReplyRefs(tweets[t].referenced_tweets)[1].id < t
         /\ ReplyRefs(tweets[t].referenced_tweets)[1].id # missing
         /\ WellFormedChain(tweets, missing, root, ReplyRefs(tweets[t].referenced_tweets)[1].id)

RECURSIVE ChainToRoot(_, _)
\* <<root, a1, ..., an>> of the well-formed chain that ends in t.
ChainToRoot(tweets, t) ==
    IF tweets[t].conversation_id = t THEN <<>>
    ELSE ChainToRoot(tweets, ReplyRefs(tweets[t].referenced_tweets)[1].id)
            \o <<ReplyRefs(tweets[t].referenced_tweets)[1].id>>

\* C10: for a well-formed chain root -> a1 -> ... -> an -> tagged of resolvable
\* tweets, get_all_parent_tweets(tagged) returns <<root, a1, ..., an>>, root
\* first, and the empty list when tagged is its own conversation root.
C10_ParentsRootFirst ==
    (thPc = "done" /\ WellFormedChain(thTweets, thMissing,
                                      thTweets[TaggedId].conversation_id, TaggedId))
        => thResult = ChainToRoot(thTweets, TaggedId)

(***************************************************************************)
(* C11                                                                     *)
(***************************************************************************)
RECURSIVE Reverse(_)
Reverse(s) == IF s = <<>> THEN <<>> ELSE Append(Reverse(Tail(s)), Head(s))

\* The ancestors the walk resolved, oldest first (it collects them child first).
Ancestors == Reverse(parent_tweets)

\* C11: the mention's type follows from the ancestors alone: none gives
\* ORIGINAL, exactly one gives DIRECT_REPLY with original = that ancestor, the
\* root plus intermediate ancestors give THREAD with original = the root and
\* replies = the other ancestors in order.
C11_TypeFromAncestors ==
    thPc = "enriched" =>
        LET type == mention_type(thMention.original_tweet, thMention.replies)
        IN  IF Ancestors = <<>>
            THEN type = TAGGED_IN_ORIGINAL /\ thMention.original_tweet = 0
            ELSE IF Len(Ancestors) = 1
            THEN /\ type = TAGGED_IN_DIRECT_REPLY
                 /\ thMention.original_tweet = Ancestors[1]
            ELSE /\ type = TAGGED_IN_THREAD
                 /\ thMention.original_tweet = Ancestors[1]
                 /\ thMention.replies = Tail(Ancestors)

(***************************************************************************)
(* C12                                                                     *)
(***************************************************************************)
\* C12: when a parent cannot be resolved, or a non-root tweet has no reply-to
\* reference among its references, the chain ends there: the walk raises
\* nothing and returns the ancestors resolved so far.
C12_ChainEndsQuietly ==
    /\ thPc # "raised"
    /\ thPc \in {"done", "enriched"} => Range(thResult) = Range(parent_tweets)

(***************************************************************************)
(* Claims about the reply heuristic                                        *)
(***************************************************************************)
BotTag == "@bot"
BotUsername == "bot"
SrTagged == srArgs.mention.tagged_tweet
SrHasOriginal == srArgs.mention.original_tweet # <<>>
SrOriginal == srArgs.mention.original_tweet[1]
SrReplies == srArgs.mention.replies
CarriesMedia(t) == "media_keys" \in t.attachments
SrMedia == CarriesMedia(SrTagged) \/ (SrHasOriginal /\ CarriesMedia(SrOriginal))
SrIsOriginal == ~SrHasOriginal
SrIsDirectReply == SrHasOriginal /\ SrReplies = <<>>
SrIsThread == SrHasOriginal /\ SrReplies # <<>>
Answered(b) == srResult.called /\ ~srResult.raised /\ srResult.value = b

\* The tokens of the tagged tweet that hold the bot's handle.
HandleTokens == {i \in DOMAIN SrTagged.tokens : Contains(SrTagged.tokens[i], BotTag)}
\* The leading run of @handle tokens of the tagged tweet.
LeadingTags ==
    {i \in DOMAIN SrTagged.tokens : \A j \in 1..i : SrTagged.tokens[j] \in TagTokens}
\* The same run without a last tag that nothing follows, not even a blank.
StrippedTags ==
    {i \in LeadingTags : ~(i = Len(SrTagged.tokens) /\ ~SrTagged.trailing)}
HandleInBody == HandleTokens \ LeadingTags # {}
HandleOnceInPrefix == Cardinality(HandleTokens) = 1 /\ HandleTokens \subseteq LeadingTags
HandleOnceInStripped == Cardinality(HandleTokens) = 1 /\ HandleTokens \subseteq StrippedTags
HandleOnceAsLastTag ==
    Cardinality(HandleTokens) = 1 /\ HandleTokens \subseteq LeadingTags \ StrippedTags
TaggedInRoot == Contains(SrOriginal.text, BotTag)
TaggedInReplies == \E i \in DOMAIN SrReplies : Contains(SrReplies[i].text, BotTag)
BotRepliedEarlier == \E i \in DOMAIN SrReplies : SrReplies[i].username = BotUsername

\* C13: when the tagged tweet or the root tweet carries media the answer is
\* false, for every mention type and wherever and however often the bot's
\* handle appears.
C13_MediaRefused == srResult.called /\ SrMedia => Answered(FALSE)

C13_Witness ==
    /\ Answered(FALSE)
    /\ ~CarriesMedia(SrTagged) /\ SrHasOriginal /\ CarriesMedia(SrOriginal)
    /\ HandleInBody /\ Cardinality(HandleTokens) >= 2

\* C14: for a mention tagged in an original tweet (no ancestors) without
\* media the answer is true whatever the text is.
C14_OriginalAlwaysReplied ==
    srResult.called /\ SrIsOriginal /\ ~CarriesMedia(SrTagged) => Answered(TRUE)

C14_Witness ==
    /\ Answered(TRUE) /\ SrIsOriginal /\ ~CarriesMedia(SrTagged)
    /\ HandleTokens = {}

\* C15: for a direct-reply or thread mention without media the answer is true
\* whenever the bot's handle is in the message body after the leading run of
\* @handle tokens, or is in the tagged text two or more times, whatever the
\* thread holds.
C15_BodyOrTwiceReplied ==
    srResult.called /\ SrHasOriginal /\ ~SrMedia
        /\ (HandleInBody \/ Cardinality(HandleTokens) >= 2)
    => Answered(TRUE)

C15_Witness ==
    /\ Answered(TRUE) /\ SrIsThread /\ ~SrMedia
    /\ ~HandleInBody /\ Cardinality(HandleTokens) = 2
    /\ TaggedInRoot /\ BotRepliedEarlier

\* C16 as stated: for a direct-reply mention without media with the bot's
\* handle exactly once in the tagged text and only in the leading run of
\* @handle tokens, the answer is true iff the handle is absent from the root
\* tweet's text.
C16_DirectReplyPrefixTag ==
    srResult.called /\ SrIsDirectReply /\ ~SrMedia /\ HandleOnceInPrefix
    => Answered(~TaggedInRoot)

\* C16 amended: a last tag that nothing follows stays in the message; with
\* the handle exactly once and in the tags before the message the answer is
\* true iff the handle is absent from the root's text, and with the handle
\* exactly once as such a last tag the answer is true.
C16_DirectReplyStrippedTag ==
    /\ srResult.called /\ SrIsDirectReply /\ ~SrMedia /\ HandleOnceInStripped
        => Answered(~TaggedInRoot)
    /\ srResult.called /\ SrIsDirectReply /\ ~SrMedia /\ HandleOnceAsLastTag
        => Answered(TRUE)

C16_Witness ==
    /\ Answered(FALSE) /\ SrIsDirectReply /\ ~SrMedia
    /\ HandleOnceInStripped /\ TaggedInRoot

PtDone == ptResult.called
PtEffects == ptResult.effects
MemeSelected == ptArgs.meme_rating >= ptArgs.meme_threshold
ImageGenerated == MemeSelected /\ ptArgs.meme_caption # <<>>
TextRatingReached == ptArgs.response_rating >= ptArgs.text_threshold
ImageReply ==
    [in_reply_to_tweet_id |-> ReplyToTweetId, quote_tweet_id |-> NoId, media |-> TRUE]
IsTextPost(request) == ~request.media
TextPosts == {i \in DOMAIN PtEffects.posts : IsTextPost(PtEffects.posts[i])}
TextPathSkipped == ~PtEffects.drew /\ TextPosts = {}

C20_TextPostIffRated ==
    PtDone /\ ~ImageGenerated =>
        /\ TextPosts # {} <=> TextRatingReached
        /\ ~TextRatingReached => PtEffects.posts = <<>> /\ PtEffects.returned = <<>>

C20_Witness ==
    /\ PtDone /\ MemeSelected /\ ptArgs.meme_caption = <<>>
    /\ ptArgs.response_rating = ptArgs.text_threshold /\ ptArgs.text_threshold > 0
    /\ Len(PtEffects.posts) = 1 /\ TextPosts = {1}

QuoteTweet ==
    [in_reply_to_tweet_id |-> NoId, quote_tweet_id |-> QuoteTweetId, media |-> FALSE]
ThreadedReply ==
    [in_reply_to_tweet_id |-> ReplyToTweetId, quote_tweet_id |-> NoId, media |-> FALSE]
ImagePosts == {i \in DOMAIN PtEffects.posts : PtEffects.posts[i].media}

\* C21: when no image reply was produced and the response rating is at or
\* above the text threshold, the call issues exactly one post request, a
\* quote tweet or a threaded reply.
C21_OneTextPost ==
    PtDone /\ ImagePosts = {} /\ TextRatingReached =>
        PtEffects.posts \in {<<QuoteTweet>>, <<ThreadedReply>>}

\* C22: on the text path one random sample is drawn, and a quote tweet is
\* posted iff the sample is strictly below the agent's quote-tweet
\* probability; otherwise a threaded reply to the tagged tweet is posted.
C22_QuoteIffBelow ==
    PtDone /\ PtEffects.drew =>
        PtEffects.posts =
            IF ptArgs.draw < ptArgs.quote_tweet_threshold
            THEN <<QuoteTweet>> ELSE <<ThreadedReply>>

\* C30: with the response rating at or above the text threshold at least one
\* post request is issued, also when the meme path was selected and the image
\* reply was not produced.
C30_NeverDropped ==
    PtDone /\ TextRatingReached => PtEffects.posts # <<>>

C24_QuotesConversationRoot ==
    (thPc = "enriched" /\ WellFormedChain(thTweets, thMissing,
                                          thTweets[TaggedId].conversation_id, TaggedId))
        => quote_tweet_id_of(thMention) = thTweets[TaggedId].conversation_id

(***************************************************************************)
(* Claims about repeated and paginated fetches                             *)
(***************************************************************************)
CycleCompleted == pc = "idle" /\ outcome = "done"

\* Nothing has appeared on the platform since the cycle's last request: that
\* request's answer still holds every mention its filters match.
NoNewMentions ==
    /\ requests # <<>>
    /\ TweetsSince(platformNewest, requests[Len(requests)].since_id,
                   requests[Len(requests)].since_time)
          = Range(responses[Len(responses)].data)

\* The tweets the filters of the running cycle match now.
CycleWindow ==
    TweetsSince(platformNewest, id_filter(cpAtStart), time_filter(cpAtStart, botStartTime))

C27_OneLowerBound ==
    \A k \in DOMAIN requests :
        /\ (requests[k].since_id # 0) # (requests[k].since_time # 0)
        /\ k > 1 => requests[k].since_time = 0

\* C29: no mention is skipped: with the stored checkpoint at c, every platform
\* mention with id at most c that is not older than the floor has been
\* returned by a fetch, also when more than batch_size mentions are new.
C29_NoMentionSkipped ==
    \A m \in 1..MentionsCheckpoint : CreatedAt(m) >= botStartTime => m \in fetched

\* C26: with finitely many mentions on the platform the loop of
\* get_all_user_mentions makes finitely many requests, whatever the platform
\* answers: every request but the last is answered by a full batch of mentions
\* above the previous ones, so there are at most (mentions div batch_size) + 1.
C26_BoundedRequests ==
    Len(requests) <= (platformNewest \div BatchSize) + 1

(***************************************************************************)
(* Claims about the Slack adapter                                          *)
(***************************************************************************)
\* C28: for one (channel, message id) the handler callback is invoked at most
\* once within the cache's time-to-live, however often the delivery is
\* retried and however many distinct messages arrive in between.
C28_HandledOncePerTtl ==
    \A i, j \in DOMAIN slLog :
        (/\ i < j
         /\ slLog[i].what = HANDLED /\ slLog[j].what = HANDLED
         /\ slLog[i].channel = slLog[j].channel /\ slLog[i].id = slLog[j].id)
        => slLog[j].time - slLog[i].time >= CacheTtl

=============================================================================
